---- MODULE Spec2Model ----
(***************************************************************************)
(* A model of the youtube-rubric-extractor scripts: the LLM client         *)
(* (utils/llm_client.py), the transcript chunker (utils/youtube.py), the   *)
(* rubric parser and merger (utils/rubric_parser.py) and the rubric        *)
(* library (extract_rubric.py, evaluate_game.py).                          *)
(*                                                                         *)
(* Python values are modelled as follows.  A dict is a function whose      *)
(* domain is its set of keys.  A list is a sequence.  A str is a sequence  *)
(* of one-character strings where its characters matter (transcripts,      *)
(* titles, file names) and a TLA+ string where only its identity matters.  *)
(* A JSON value of unknown type is a record [k |-> kind, ...].             *)
(***************************************************************************)
EXTENDS Integers, Sequences, FiniteSets, TLC

VARIABLES
    \* ---- utils/llm_client.py
    env,        \* the process environment read by LLMClient._init_client
    client,     \* the LLMClient object: [client, provider, model]
    retries,    \* complete_with_retry: the retries argument
    attempt,    \* complete_with_retry: the loop variable
    result,     \* complete_with_retry: the local `result`
    calls,      \* the dicts returned by the calls of complete, in order
    returned,   \* what complete_with_retry returned
    lpc,        \* position of the caller of complete_with_retry
    \* ---- utils/youtube.py, chunk_transcript
    transcript, \* the transcript argument, a sequence of characters
    chunk_size, \* the chunk_size argument
    overlap,    \* the overlap argument
    start,      \* the local `start`
    windows,    \* the pairs <<start, end>> that were sliced, in order
    chunks,     \* the list `chunks`
    cpc,        \* position inside chunk_transcript
    \* ---- utils/rubric_parser.py, parse_rubric_json and _validate_rubric
    content,    \* the content argument of parse_rubric_json
    parsed,     \* the outcome of parse_rubric_json(content)
    again,      \* the outcome of _validate_rubric on the rubric it returned
    now,        \* the clock read by datetime.now()
    vpc,        \* position of the caller
    \* ---- utils/rubric_parser.py, merge_rubrics
    merge_input, \* the rubrics argument as it was when merge_rubrics was called
    rubrics,    \* the rubrics argument (its first rubric is updated in place)
    merged,     \* the outcome of merge_rubrics(rubrics)
    mpc,        \* position of the caller
    \* ---- extract_rubric.py save_rubric, evaluate_game.py load_rubric
    library,    \* the *.json files of rubric_library/: file name -> content
    outside,    \* the files written through an explicit output path
    last_saved, \* the last call of save_rubric: its rubric and its path
    clobbered,  \* the last rubric file that a save replaced, and by what
    load_id,    \* the argument of the last load_rubric since the last save
    loaded,     \* the outcome of that load_rubric
    \* ---- extract_rubric.py extract_rubric, utils/youtube.py downloads
    p_url,      \* the url argument: whether it is a YouTube video URL
    custom_title, \* the custom_title argument
    p_env,      \* the process environment
    global_client, \* llm_client._client
    metadata,   \* the local `metadata`
    dl,         \* what download_transcript did: the calls it made
    p_transcript, \* the local `transcript`
    p_chunks,   \* the local `chunks`
    p_index,    \* the loop variable i of line 89
    p_rubrics,  \* the local `rubrics`
    requests,   \* the chunks sent to complete_with_retry, in order
    p_result,   \* the outcome of extract_rubric
    epc,        \* position inside extract_rubric
    \* ---- utils/llm_client.py module state, evaluate_game.py
    g_env,      \* the process environment
    g_client,   \* llm_client._client: 0 for None, else the index in heap
    heap,       \* the LLMClient objects constructed so far
    client_log, \* the get_client and reset_client calls, with what they returned
    llm_result, \* evaluate_against_rubric's local `result`
    evaluation, \* main's local `evaluation`: the outcome of evaluate_against_rubric
    output,     \* what main printed last, and the exit status
    main_pc     \* position inside main of evaluate_game.py

llmVars == <<env, client, retries, attempt, result, calls, returned, lpc>>

None == "<None>"

\* ------------------------------------------------------------------------
\* utils/youtube.py: chunk_transcript
\* ------------------------------------------------------------------------

chunkVars == <<transcript, chunk_size, overlap, start, windows, chunks, cpc>>

\* Longest transcript, largest chunk_size and overlap arguments explored,
\* and the number of loop iterations after which a run is abandoned.
MaxLen == 4
MaxChunk == 3
MaxOverlap == 2
MaxIter == 6

\* The look-back distance of the boundary search (lines 155 and 160).
LookBack == 200

Chars == {"a", ".", " ", "\n"}
Whitespace == {" ", "\n"}

Min(a, b) == IF a < b THEN a ELSE b
Max(a, b) == IF a > b THEN a ELSE b

RECURSIVE StringsUpTo(_)
StringsUpTo(n) ==
    IF n = 0 THEN {<<>>}
    ELSE LET S == StringsUpTo(n - 1) IN
         S \cup {Append(s, c) : s \in {x \in S : Len(x) = n - 1}, c \in Chars}

\* Python's reading of a slice bound i for a sequence of length n: a
\* negative bound counts from the end, and the result is clamped to 0..n.
SliceIdx(i, n) == IF i < 0 THEN Max(i + n, 0) ELSE Min(i, n)

\* s[a:b]
Slice(s, a, b) ==
    LET lo == SliceIdx(a, Len(s))
        hi == SliceIdx(b, Len(s))
    IN  IF lo >= hi THEN <<>> ELSE SubSeq(s, lo + 1, hi)

\* s.rfind(sub, a, b): the highest index p with a <= p, p + len(sub) <= b
\* (bounds read as slice bounds) at which sub occurs, or -1.
RFind(s, sub, a, b) ==
    LET lo == SliceIdx(a, Len(s))
        hi == SliceIdx(b, Len(s))
        hits == {p \in lo .. (hi - Len(sub)) : SubSeq(s, p + 1, p + Len(sub)) = sub}
    IN  IF hits = {} THEN -1 ELSE CHOOSE p \in hits : \A q \in hits : q <= p

\* s.strip()
RECURSIVE LStrip(_)
LStrip(s) == IF s # <<>> /\ Head(s) \in Whitespace THEN LStrip(Tail(s)) ELSE s
RECURSIVE RStrip(_)
RStrip(s) ==
    IF s # <<>> /\ s[Len(s)] \in Whitespace THEN RStrip(SubSeq(s, 1, Len(s) - 1)) ELSE s
Strip(s) == RStrip(LStrip(s))

\* Lines 150-162: the end of the window that starts at st.
WindowEnd(t, st, size) ==
    LET end == st + size IN
    IF end < Len(t)
    THEN LET newline_pos == RFind(t, <<"\n">>, end - LookBack, end) IN
         IF newline_pos # -1 THEN newline_pos + 1
         ELSE LET sentence_end == RFind(t, <<".", " ">>, end - LookBack, end) IN
              IF sentence_end # -1 THEN sentence_end + 2 ELSE end
    ELSE end

MutNextStartSkips(end, ov) == end + 1 - ov

\* Line 165: where the next window starts.
NextStart(end, ov) == end - ov

InitChunk ==
    /\ transcript \in StringsUpTo(MaxLen)
    /\ chunk_size \in 1 .. MaxChunk
    /\ overlap \in 0 .. MaxOverlap
    /\ start = 0
    /\ windows = <<>>
    /\ chunks = <<>>
    /\ cpc = "call"

\* Lines 143-147.
ChunkEnter ==
    /\ cpc = "call"
    /\ IF Len(transcript) <= chunk_size
       THEN chunks' = <<transcript>> /\ cpc' = "returned"
       ELSE chunks' = <<>> /\ cpc' = "loop"
    /\ UNCHANGED <<transcript, chunk_size, overlap, start, windows>>

\* One iteration of the while loop (lines 149-165).
ChunkIteration ==
    /\ cpc = "loop"
    /\ start < Len(transcript)
    /\ Len(windows) < MaxIter
    /\ LET end == WindowEnd(transcript, start, chunk_size) IN
        /\ chunks' = Append(chunks, Strip(Slice(transcript, start, end)))
        /\ windows' = Append(windows, <<start, end>>)
        /\ start' = NextStart(end, overlap)
    /\ UNCHANGED <<transcript, chunk_size, overlap, cpc>>

\* The while condition fails: `return chunks` (line 167).
ChunkReturn ==
    /\ cpc = "loop"
    /\ start >= Len(transcript)
    /\ cpc' = "returned"
    /\ UNCHANGED <<transcript, chunk_size, overlap, start, windows, chunks>>

\* ------------------------------------------------------------------------
\* JSON values, as json.loads builds them
\* ------------------------------------------------------------------------

JNull == [k |-> "null"]
JStr(x) == [k |-> "str", s |-> x]
JNum(x) == [k |-> "num", n |-> x]
JList(x) == [k |-> "list", items |-> x]
JDict(f) == [k |-> "dict", m |-> f]

EmptyMap == [x \in {} |-> JNull]

IsDict(v) == v.k = "dict"
IsList(v) == v.k = "list"

\* bool(v)
Truthy(v) ==
    CASE v.k = "null" -> FALSE
      [] v.k = "str"  -> v.s # ""
      [] v.k = "num"  -> v.n # 0
      [] v.k = "list" -> v.items # <<>>
      [] v.k = "dict" -> DOMAIN v.m # {}
      [] OTHER        -> TRUE

\* d[key] = v and d.setdefault(key, v) on the key-value map of a dict.
DictSet(m, key, v) == (key :> v) @@ m
DictSetDefault(m, key, v) == IF key \in DOMAIN m THEN m ELSE m @@ (key :> v)

\* An outcome: a value returned, or an exception raised.
Returned(v) == [ok |-> TRUE, val |-> v]
Raised(e) == [ok |-> FALSE, exc |-> e]

RECURSIVE SetToSeq(_)
SetToSeq(S) == IF S = {} THEN <<>>
               ELSE LET x == CHOOSE y \in S : TRUE IN <<x>> \o SetToSeq(S \ {x})

\* `for x in v`: the items iterated, or TypeError when v is not iterable.
\* A dict yields its keys and a str its characters (all of them strs).
Iterate(v) ==
    CASE v.k = "list" -> Returned(v.items)
      [] v.k = "dict" -> Returned([i \in 1 .. Cardinality(DOMAIN v.m) |->
                                     JStr(SetToSeq(DOMAIN v.m)[i])])
      [] v.k = "str"  -> Returned(IF v.s = "" THEN <<>> ELSE <<JStr(v.s)>>)
      [] OTHER        -> Raised("TypeError")

\* ------------------------------------------------------------------------
\* utils/rubric_parser.py: _validate_rubric and parse_rubric_json
\* ------------------------------------------------------------------------

valVars == <<content, parsed, again, now, vpc>>

\* Latest instant of the clock explored.
MaxClock == 2

required_fields == <<"title", "difficulty", "archetype">>
benchmark_keys == <<"feudal_age", "castle_age", "imperial_age", "second_tc",
                    "third_tc", "villagers_at_10min", "villagers_at_castle">>

\* Lines 48-50, for the fields from index i on.
RECURSIVE RequiredFrom(_, _)
RequiredFrom(m, i) ==
    IF i > Len(required_fields) THEN m
    ELSE LET field == required_fields[i] IN
         RequiredFrom(IF field \notin DOMAIN m \/ ~Truthy(m[field])
                      THEN DictSet(m, field, JStr("unknown")) ELSE m,
                      i + 1)

MutEnsureArraysAppendsAny(m) ==
    LET old == IF "map_types" \in DOMAIN m /\ IsList(m["map_types"])
               THEN m["map_types"].items ELSE <<>>
        m1 == DictSetDefault(m, "civilizations", JList(<<>>))
        m2 == DictSet(m1, "map_types", JList(Append(old, JStr("any"))))
        m3 == DictSetDefault(m2, "phases", JList(<<>>))
        m4 == DictSetDefault(m3, "decision_points", JList(<<>>))
        m5 == DictSetDefault(m4, "counters", JDict(EmptyMap))
    IN  DictSetDefault(m5, "key_insights", JList(<<>>))

\* Lines 53-58.
EnsureArrays(m) ==
    LET m1 == DictSetDefault(m, "civilizations", JList(<<>>))
        m2 == DictSetDefault(m1, "map_types", JList(<<JStr("any")>>))
        m3 == DictSetDefault(m2, "phases", JList(<<>>))
        m4 == DictSetDefault(m3, "decision_points", JList(<<>>))
        m5 == DictSetDefault(m4, "counters", JDict(EmptyMap))
    IN  DictSetDefault(m5, "key_insights", JList(<<>>))

\* Lines 67-68 for one action: AttributeError unless it is a dict.
ValidateAction(a) ==
    IF IsDict(a)
    THEN Returned(JDict(DictSetDefault(a.m, "importance", JStr("important"))))
    ELSE Raised("AttributeError")

\* Lines 62-68 for one phase.  The dicts are updated in place, so the
\* container that holds the actions keeps its type.
ValidatePhase(ph) ==
    IF ~IsDict(ph) THEN Raised("AttributeError")
    ELSE LET p1 == DictSetDefault(ph.m, "key_actions", JList(<<>>))
             p2 == DictSetDefault(p1, "success_criteria", JList(<<>>))
             p3 == DictSetDefault(p2, "common_mistakes", JList(<<>>))
             it == Iterate(p3["key_actions"])
         IN  IF ~it.ok THEN it
             ELSE LET rs == [i \in 1 .. Len(it.val) |-> ValidateAction(it.val[i])] IN
                  IF \E i \in 1 .. Len(rs) : ~rs[i].ok
                  THEN rs[CHOOSE i \in 1 .. Len(rs) :
                              ~rs[i].ok /\ \A j \in 1 .. i - 1 : rs[j].ok]
                  ELSE Returned(JDict(
                         IF IsList(p3["key_actions"])
                         THEN DictSet(p3, "key_actions",
                                      JList([i \in 1 .. Len(rs) |-> rs[i].val]))
                         ELSE p3))

\* Lines 61-68: the value of rubric['phases'] after the loop.
ValidatePhases(v) ==
    LET it == Iterate(v) IN
    IF ~it.ok THEN it
    ELSE LET rs == [i \in 1 .. Len(it.val) |-> ValidatePhase(it.val[i])] IN
         IF \E i \in 1 .. Len(rs) : ~rs[i].ok
         THEN rs[CHOOSE i \in 1 .. Len(rs) : ~rs[i].ok /\ \A j \in 1 .. i - 1 : rs[j].ok]
         ELSE Returned(IF IsList(v) THEN JList([i \in 1 .. Len(rs) |-> rs[i].val]) ELSE v)

\* Lines 72-74, for the keys from index i on.
RECURSIVE BenchmarksFrom(_, _)
BenchmarksFrom(b, i) ==
    IF i > Len(benchmark_keys) THEN b
    ELSE BenchmarksFrom(DictSetDefault(b, benchmark_keys[i], JNull), i + 1)

\* Lines 77-80.
Meta(t) == JDict([extracted_at |-> [k |-> "time", t |-> t], version |-> JStr("1.0")])

\* _validate_rubric(rubric) called at instant t.  A rubric that is not a
\* dict fails at the first required field (lines 49-50) with TypeError.
validate_rubric(rubric, t) ==
    IF ~IsDict(rubric) THEN Raised("TypeError")
    ELSE LET m1 == EnsureArrays(RequiredFrom(rubric.m, 1))
             ph == ValidatePhases(m1["phases"])
         IN  IF ~ph.ok THEN ph
             ELSE LET m2 == DictSet(m1, "phases", ph.val)
                      m3 == DictSetDefault(m2, "benchmarks", JDict(EmptyMap))
                  IN  IF ~IsDict(m3["benchmarks"]) THEN Raised("AttributeError")
                      ELSE Returned(JDict(
                             DictSet(DictSet(m3, "benchmarks",
                                             JDict(BenchmarksFrom(m3["benchmarks"].m, 1))),
                                     "_meta", Meta(t))))

\* The content of an LLM response, as the sequence of the pieces that
\* parse_rubric_json tells apart: a json fence (three backticks and the word
\* json), a bare fence (three backticks), a
\* newline, prose that is not JSON, and a JSON text (with the value that
\* json.loads gives for it).  A content of None is NoContent.
TFenceJson == [tok |-> "fence-json"]
TFence == [tok |-> "fence"]
TNl == [tok |-> "newline"]
TProse == [tok |-> "prose"]
TDoc(v) == [tok |-> "json", val |-> v]

NoContent == [isNone |-> TRUE, toks |-> <<>>]
Text(toks) == [isNone |-> FALSE, toks |-> toks]

\* `sub in content` for the two fences; three backticks also occur inside
\* the json fence.
Contains(toks, subs) == \E i \in 1 .. Len(toks) : toks[i] \in subs

\* re.search of lines 22 and 26 (DOTALL, non-greedy group): the leftmost
\* opening fence followed by a newline for which a later newline is followed
\* by three backticks, and the shortest text between them (group 1).
FenceSearch(toks, open) ==
    LET Closes(i) == {j \in i + 2 .. Len(toks) - 1 :
                        toks[j] = TNl /\ toks[j + 1] \in {TFence, TFenceJson}}
        opens == {i \in 1 .. Len(toks) - 1 :
                    toks[i] = open /\ toks[i + 1] = TNl /\ Closes(i) # {}}
    IN  IF opens = {} THEN [found |-> FALSE, group |-> <<>>]
        ELSE LET i == CHOOSE x \in opens : \A y \in opens : x <= y
                 j == CHOOSE x \in Closes(i) : \A y \in Closes(i) : x <= y
             IN  [found |-> TRUE, group |-> SubSeq(toks, i + 2, j - 1)]

\* content.strip()
RECURSIVE StripToks(_)
StripToks(toks) ==
    IF toks # <<>> /\ Head(toks) = TNl THEN StripToks(Tail(toks))
    ELSE IF toks # <<>> /\ toks[Len(toks)] = TNl
    THEN StripToks(SubSeq(toks, 1, Len(toks) - 1))
    ELSE toks

\* json.loads(content): the value, or JSONDecodeError (a ValueError).
Loads(toks) ==
    IF Len(toks) = 1 /\ toks[1].tok = "json" THEN Returned(toks[1].val)
    ELSE Raised("JSONDecodeError")

\* Lines 21-28: the text handed to json.loads before stripping.
Unfence(toks) ==
    IF Contains(toks, {TFenceJson})
    THEN LET match == FenceSearch(toks, TFenceJson) IN
         IF match.found THEN match.group ELSE toks
    ELSE IF Contains(toks, {TFence, TFenceJson})
    THEN LET match == FenceSearch(toks, TFence) IN
         IF match.found THEN match.group ELSE toks
    ELSE toks

\* parse_rubric_json(content) called at instant t.
parse_rubric_json(c, t) ==
    IF c.isNone THEN Raised("TypeError")
    ELSE LET rubric == Loads(StripToks(Unfence(c.toks))) IN
         IF ~rubric.ok THEN Raised("ValueError")
         ELSE validate_rubric(rubric.val, t)

\* ---- the JSON texts an LLM response can hold
Absent == [k |-> "absent"]

FieldOptions ==
    LET PhaseName == JDict([name |-> JStr("Dark Age")])
        PhaseActions ==
            JDict([name |-> JStr("Feudal Age"),
                   key_actions |-> JList(<<JDict([action |-> JStr("build")]),
                                           JDict([action |-> JStr("scout"),
                                                  importance |-> JStr("critical")])>>)])
        PhaseFull ==
            JDict([name |-> JStr("Dark Age"),
                   key_actions |-> JList(<<>>),
                   success_criteria |-> JList(<<JStr("6 sheep")>>),
                   common_mistakes |-> JList(<<>>)])
        PhaseNullActions == JDict([name |-> JStr("Dark Age"), key_actions |-> JNull])
        PhaseStrAction == JDict([key_actions |-> JList(<<JStr("build")>>)])
    IN
    [title : {Absent, JNull, JStr(""), JStr("Fast Castle")},
     difficulty : {Absent, JStr("hard")},
     archetype : {Absent},
     civilizations : {Absent, JNull, JList(<<JStr("English")>>)},
     map_types : {Absent, JList(<<>>)},
     phases : {Absent, JNull, JStr(""), JDict(EmptyMap), JList(<<>>),
               JList(<<PhaseName>>), JList(<<PhaseActions, PhaseFull>>),
               JList(<<PhaseNullActions>>), JList(<<PhaseStrAction>>),
               JList(<<JStr("Dark Age")>>)},
     decision_points : {Absent},
     counters : {Absent, JNull},
     key_insights : {Absent, JList(<<JStr("scout early")>>)},
     benchmarks : {Absent, JNull, JList(<<>>), JDict(EmptyMap),
                   JDict([feudal_age |-> JNum(300)])}]

\* The JSON object with the fields that a choice of options gives.
MakeDoc(choice) ==
    JDict([key \in {x \in DOMAIN choice : choice[x] # Absent} |-> choice[key]])

OtherDocs == {JNull, JStr("Fast Castle"), JNum(5), JList(<<>>)}
SomeDocs == OtherDocs \cup
    {JDict(EmptyMap), JDict([title |-> JStr("Fast Castle"), civilizations |-> JNull])}

\* A JSON text alone, or wrapped the ways LLM responses wrap it.
Contents ==
    {NoContent, Text(<<>>), Text(<<TProse>>)}
    \cup {Text(<<TDoc(d)>>) : d \in {MakeDoc(choice) : choice \in FieldOptions} \cup OtherDocs}
    \cup UNION {{Text(<<TNl, TDoc(d), TNl>>),
                 Text(<<TFenceJson, TNl, TDoc(d), TNl, TFence>>),
                 Text(<<TProse, TNl, TFenceJson, TNl, TDoc(d), TNl, TFence, TNl, TProse>>),
                 Text(<<TFence, TNl, TDoc(d), TNl, TFence>>),
                 Text(<<TFenceJson, TDoc(d), TFence>>),
                 Text(<<TFenceJson, TNl, TDoc(d), TFence>>),
                 Text(<<TFence, TProse, TNl, TDoc(d), TNl, TFence>>),
                 Text(<<TFenceJson, TNl, TNl, TFence, TNl, TDoc(d), TNl, TFence>>),
                 Text(<<TProse, TDoc(d)>>)} : d \in SomeDocs}

NotCalled == Raised("<not called>")

InitValidate ==
    /\ content \in Contents
    /\ parsed = NotCalled
    /\ again = NotCalled
    /\ now = 0
    /\ vpc = "call"

\* parse_rubric_json(content)
ParseRubricJson ==
    /\ vpc = "call"
    /\ parsed' = parse_rubric_json(content, now)
    /\ vpc' = "parsed"
    /\ UNCHANGED <<content, again, now>>

\* _validate_rubric applied to the rubric parse_rubric_json returned.
ValidateAgain ==
    /\ vpc = "parsed"
    /\ parsed.ok
    /\ again' = validate_rubric(parsed.val, now)
    /\ vpc' = "revalidated"
    /\ UNCHANGED <<content, parsed, now>>

\* Time passes.
Tick ==
    /\ now < MaxClock
    /\ now' = now + 1
    /\ UNCHANGED <<content, parsed, again, vpc>>

ParkValidate ==
    /\ content = NoContent
    /\ parsed = NotCalled
    /\ again = NotCalled
    /\ now = 0
    /\ vpc = "parked"

\* ------------------------------------------------------------------------
\* utils/llm_client.py
\* ------------------------------------------------------------------------

\* Largest retries argument explored (the default is 2).
MaxRetries == 2

\* os.getenv for the three variables _init_client reads, and whether the
\* OpenAI(...) constructor raises for each provider.
Envs ==
    [OPENAI_API_KEY : {"", "sk"}, ZAI_API_KEY : {"", "sk"},
     AI_PROVIDER : {"auto", "zai", "openai", "other"}, zai_ctor_ok : BOOLEAN, openai_ctor_ok : BOOLEAN]

NoClient == [client |-> None, provider |-> None, model |-> None]

MutInitIgnoresPreference(e) ==
    IF e.ZAI_API_KEY # "" /\ e.zai_ctor_ok
    THEN [client |-> "OpenAI(zai)", provider |-> "zai", model |-> "glm-4.6"]
    ELSE IF e.OPENAI_API_KEY # "" /\ e.openai_ctor_ok
    THEN [client |-> "OpenAI(openai)", provider |-> "openai", model |-> "gpt-4o-mini"]
    ELSE NoClient

\* LLMClient.__init__ and _init_client: the object after construction.
InitClient(e) ==
    IF e.AI_PROVIDER \in {"zai", "auto"} /\ e.ZAI_API_KEY # "" /\ e.zai_ctor_ok
    THEN [client |-> "OpenAI(zai)", provider |-> "zai", model |-> "glm-4.6"]
    ELSE IF e.OPENAI_API_KEY # "" /\ e.openai_ctor_ok
    THEN [client |-> "OpenAI(openai)", provider |-> "openai", model |-> "gpt-4o-mini"]
    ELSE NoClient

is_available(c) == c.client # None

\* What client.chat.completions.create can do: raise, or return a response
\* whose message has a content (None, empty or a text), possibly a
\* reasoning_content attribute, and possibly a usage.
ApiContents == {NoContent, Text(<<>>), Text(<<TDoc(JDict(EmptyMap))>>)}
ApiResponses ==
    [raises : {TRUE}, error : {"timeout", "rate limit"}]
    \cup [raises : {FALSE}, content : ApiContents, has_reasoning : BOOLEAN,
          reasoning : {Text(<<TProse>>)}, usage : {None, "usage"}]

\* `not content`
Falsy(c) == c.isNone \/ c.toks = <<>>

\* LLMClient.complete: the dict it returns.
Complete(c, api) ==
    IF c.client = None
    THEN [success |-> FALSE, error |-> "LLM not configured", content |-> NoContent]
    ELSE IF api.raises
    THEN [success |-> FALSE, error |-> api.error, content |-> NoContent]
    ELSE [success |-> TRUE,
          content |-> IF Falsy(api.content) /\ api.has_reasoning
                      THEN api.reasoning ELSE api.content,
          usage |-> [prompt_tokens |-> IF api.usage # None THEN 1 ELSE 0,
                     completion_tokens |-> IF api.usage # None THEN 1 ELSE 0]]

Unbound == [unbound |-> TRUE]

InitLLM ==
    /\ env \in Envs
    /\ client = InitClient(env)
    /\ retries = 0
    /\ attempt = 0
    /\ result = Unbound
    /\ calls = <<>>
    /\ returned = Unbound
    /\ lpc = "idle"

\* complete_with_retry is entered with retries = n.
RetryEnter(n) ==
    /\ lpc = "idle"
    /\ retries' = n
    /\ attempt' = 0
    /\ lpc' = "loop"
    /\ UNCHANGED <<env, client, result, calls, returned>>

MutLoopContinues(r) == FALSE

\* complete_with_retry line 126: the loop is left on success.
ReturnsOnSuccess(r) == r.success

\* One iteration of the for loop of complete_with_retry.
RetryIteration(api) ==
    /\ lpc = "loop"
    /\ attempt < retries + 1
    /\ LET r == Complete(client, api) IN
        /\ result' = r
        /\ calls' = Append(calls, r)
        /\ IF ReturnsOnSuccess(r)
           THEN /\ returned' = r
                /\ lpc' = "returned"
                /\ UNCHANGED attempt
           ELSE /\ attempt' = attempt + 1
                /\ UNCHANGED <<returned, lpc>>
    /\ UNCHANGED <<env, client, retries>>

\* The for loop is exhausted: `return result` (line 132); with no iteration
\* made, `result` is unbound and the return raises UnboundLocalError.
RetryExhausted ==
    /\ lpc = "loop"
    /\ attempt >= retries + 1
    /\ IF result = Unbound
       THEN lpc' = "raised" /\ UNCHANGED returned
       ELSE lpc' = "returned" /\ returned' = result
    /\ UNCHANGED <<env, client, retries, attempt, result, calls>>

\* ------------------------------------------------------------------------
\* utils/rubric_parser.py: merge_rubrics
\* ------------------------------------------------------------------------

mergeVars == <<merge_input, rubrics, merged, mpc>>

\* Longest list of chunk rubrics explored.
MaxRubrics == 3

\* d.get(key, default) on the key-value map of a dict.
DictGet(m, key, default) == IF key \in DOMAIN m THEN m[key] ELSE default

\* The items of rubrics[2..] under `field` (rubric.get(field, [])), in the
\* order in which the loops of lines 113, 121 and 135 visit them.
RECURSIVE LaterItems(_, _, _)
LaterItems(rs, field, i) ==
    IF i > Len(rs) THEN <<>>
    ELSE DictGet(rs[i].m, field, JList(<<>>)).items \o LaterItems(rs, field, i + 1)

\* p['name'], dp['trigger'] (key # "") or the item itself (key = "").
HasKey(item, key) == key = "" \/ (IsDict(item) /\ key \in DOMAIN item.m)
KeyOf(item, key) == IF key = "" THEN item ELSE item.m[key]

MutAppendAll(acc, seen, items, key, i) == acc \o items

\* Lines 113-117 (121-125, 135-139): items[i..] are appended to acc unless
\* their key is among `seen`, which grows with every item appended.
RECURSIVE AppendNew(_, _, _, _, _)
AppendNew(acc, seen, items, key, i) ==
    IF i > Len(items) THEN acc
    ELSE LET k == KeyOf(items[i], key) IN
         IF k \notin seen
         THEN AppendNew(Append(acc, items[i]), seen \cup {k}, items, key, i + 1)
         ELSE AppendNew(acc, seen, items, key, i + 1)

\* Lines 112-117, 120-125 and 134-139 for one field: the list
\* merged[field] after the loops, or KeyError when an item lacks the key.
MergeList(rs, field, key) ==
    LET first == DictGet(rs[1].m, field, JList(<<>>)).items
        later == LaterItems(rs, field, 2)
    IN  IF \E i \in 1 .. Len(first) : ~HasKey(first[i], key) THEN Raised("KeyError")
        ELSE IF \E i \in 1 .. Len(later) : ~HasKey(later[i], key) THEN Raised("KeyError")
        ELSE Returned(JList(AppendNew(first,
                                      {KeyOf(first[i], key) : i \in 1 .. Len(first)},
                                      later, key, 1)))

MutOverwriteBenchmark(mb, b) ==
    [key \in DOMAIN mb \cup DOMAIN b |->
        IF key \in DOMAIN b /\ b[key] # JNull THEN b[key] ELSE mb[key]]

\* Lines 129-131 for one later rubric with benchmarks b: a value that is not
\* None fills a key that merged['benchmarks'] lacks or holds None for.
FillBenchmarks(mb, b) ==
    [key \in DOMAIN mb \cup {x \in DOMAIN b : b[x] # JNull} |->
        IF key \in DOMAIN b /\ b[key] # JNull /\ DictGet(mb, key, JNull) = JNull
        THEN b[key] ELSE mb[key]]

\* Lines 128-131, for the rubrics from index i on.
RECURSIVE MergeBenchmarks(_, _, _)
MergeBenchmarks(mb, rs, i) ==
    IF i > Len(rs) THEN mb
    ELSE MergeBenchmarks(
           FillBenchmarks(mb, DictGet(rs[i].m, "benchmarks", JDict(EmptyMap)).m),
           rs, i + 1)

\* merge_rubrics(rubrics)
merge_rubrics(rs) ==
    IF rs = <<>> THEN Returned(JDict(EmptyMap))
    ELSE IF Len(rs) = 1 THEN Returned(rs[1])
    ELSE LET ph == MergeList(rs, "phases", "name")
             ki == MergeList(rs, "key_insights", "")
             dp == MergeList(rs, "decision_points", "trigger")
         IN  IF ~ph.ok THEN ph
             ELSE IF ~ki.ok THEN ki
             ELSE IF ~dp.ok THEN dp
             ELSE Returned(JDict(
                    DictSet(DictSet(DictSet(DictSet(rs[1].m,
                        "phases", ph.val),
                        "key_insights", ki.val),
                        "benchmarks",
                            JDict(MergeBenchmarks(rs[1].m["benchmarks"].m, rs, 2))),
                        "decision_points", dp.val)))

\* ---- the chunk rubrics: what parse_rubric_json returns for these texts
Named(n) == JDict([name |-> JStr(n)])
Trigger(t) == JDict([trigger |-> JStr(t), action |-> JStr("wall")])

ChunkDocs ==
    {JDict(EmptyMap)}
    \cup {JDict([phases |-> JList(x)]) :
            x \in {<<Named("Dark Age")>>, <<Named("Feudal Age")>>,
                   <<Named("Dark Age"), Named("Dark Age")>>,
                   <<Named("Feudal Age"), Named("Dark Age")>>,
                   <<JDict(EmptyMap)>>}}
    \cup {JDict([key_insights |-> JList(x)]) :
            x \in {<<JStr("scout early")>>, <<JStr("wall up")>>,
                   <<JStr("scout early"), JStr("scout early")>>}}
    \cup {JDict([decision_points |-> JList(x)]) :
            x \in {<<Trigger("rush")>>, <<Trigger("boom")>>,
                   <<Trigger("rush"), Trigger("rush")>>}}
    \cup {JDict([benchmarks |-> JDict(x)]) :
            x \in {[feudal_age |-> JNum(300)], [feudal_age |-> JNum(330)],
                   [feudal_age |-> JNull, castle_age |-> JNum(900)]}}
    \cup {JDict([title |-> JStr("Fast Castle"),
                 phases |-> JList(<<Named("Dark Age"), Named("Castle Age")>>),
                 key_insights |-> JList(<<JStr("wall up")>>),
                 decision_points |-> JList(<<Trigger("rush")>>),
                 benchmarks |-> JDict([castle_age |-> JNum(840)])])}

ChunkRubrics == {validate_rubric(d, 0).val : d \in ChunkDocs}

RECURSIVE ListsUpTo(_, _)
ListsUpTo(S, n) ==
    IF n = 0 THEN {<<>>}
    ELSE LET L == ListsUpTo(S, n - 1) IN
         L \cup {Append(l, x) : l \in {y \in L : Len(y) = n - 1}, x \in S}

InitMerge ==
    /\ merge_input \in ListsUpTo(ChunkRubrics, MaxRubrics)
    /\ rubrics = merge_input
    /\ merged = NotCalled
    /\ mpc = "call"

\* merge_rubrics(rubrics).  merged is a shallow copy of rubrics[0]: the
\* lists and the benchmarks dict it updates are those of rubrics[0].
MergeRubrics ==
    /\ mpc = "call"
    /\ LET r == merge_rubrics(rubrics) IN
        /\ merged' = r
        /\ mpc' = IF r.ok THEN "returned" ELSE "raised"
        /\ rubrics' = IF r.ok /\ Len(rubrics) >= 2
                      THEN [rubrics EXCEPT ![1] = r.val] ELSE rubrics
    /\ UNCHANGED merge_input

ParkMerge ==
    /\ merge_input = <<>>
    /\ rubrics = <<>>
    /\ merged = NotCalled
    /\ mpc = "parked"

\* ------------------------------------------------------------------------
\* utils/rubric_parser.py generate_rubric_id, extract_rubric.py save_rubric,
\* evaluate_game.py load_rubric
\* ------------------------------------------------------------------------

libVars == <<library, outside, last_saved, clobbered, load_id, loaded>>

\* Number of save_rubric calls explored.
MaxSaves == 2

\* Line 90: the length an id is cut to.
IdMaxLen == 50

\* The characters of a title: letters in both cases, white space and
\* punctuation.
Punctuation == {"!", "_", "."}
LowerStr(x) ==
    [i \in 1 .. Len(x) |-> IF x[i] = "A" THEN "a" ELSE IF x[i] = "B" THEN "b" ELSE x[i]]

\* re.sub(r'[^a-zA-Z0-9\s]', '', x)
RemovePunctuation(x) == LET IsKept(c) == c \notin Punctuation IN SelectSeq(x, IsKept)

\* re.sub(r'\s+', '_', x): every run of white space becomes one underscore
\* (the first character of the run does, the others go).
UnderscoreRuns(x) ==
    LET IsLeft(c) == c # "" IN
    SelectSeq([i \in 1 .. Len(x) |->
                 IF x[i] \notin Whitespace THEN x[i]
                 ELSE IF i > 1 /\ x[i - 1] \in Whitespace THEN "" ELSE "_"],
              IsLeft)

MutIdWithAuthor(title, author) ==
    Slice(UnderscoreRuns(Strip(RemovePunctuation(LowerStr(title)))) \o <<"_", author>>,
          0, IdMaxLen)

\* generate_rubric_id(title, author): lines 88-93; author is not used.
generate_rubric_id(title, author) ==
    Slice(UnderscoreRuns(Strip(RemovePunctuation(LowerStr(title)))), 0, IdMaxLen)

Untitled == <<"u", "n", "t", "i", "t", "l", "e", "d">>

\* f"{rubric_id}.json", and Path(name).stem of such a name (the stem of
\* ".json" itself is ".json").
FileName(id) == id \o <<".json">>
Stem(name) == IF Len(name) = 1 THEN name ELSE SubSeq(name, 1, Len(name) - 1)

\* `x in y` for two strs.
IsSubstring(x, y) ==
    \E i \in 0 .. Len(y) - Len(x) : SubSeq(y, i + 1, i + Len(x)) = x

\* json.dump writes a text from which json.load builds an equal value, for
\* the values a rubric holds (dicts with str keys, lists, strs, ints, None).
\* A file that holds no JSON text is Garbage.
JsonDump(v) == [json |-> TRUE, value |-> v]
Garbage == [json |-> FALSE, value |-> EmptyMap]
JsonLoad(file) == IF file.json THEN Returned(file.value) ELSE Raised("JSONDecodeError")

MutPartialMatchFirst(lib, id) ==
    LET partial == {n \in DOMAIN lib : IsSubstring(LowerStr(id), LowerStr(Stem(n)))} IN
    IF partial # {} THEN partial
    ELSE IF FileName(id) \in DOMAIN lib THEN {FileName(id)} ELSE {}

\* Lines 23-31 of load_rubric: the files `filepath` can name when the open
\* of line 36 is reached.  glob yields the files in no particular order, so
\* with no exact file any file with a matching stem can be the one.
LoadCandidates(lib, id) ==
    IF FileName(id) \in DOMAIN lib THEN {FileName(id)}
    ELSE {n \in DOMAIN lib : IsSubstring(LowerStr(id), LowerStr(Stem(n)))}

\* ---- the rubrics saved and the libraries they are saved into
Titles ==
    LET LongTitle == [i \in 1 .. IdMaxLen |-> "a"] IN
    {<<"!">>, <<"A">>, <<" ", "a", ".">>,
     <<"a", " ", "b">>, <<"a", " ", "\n", "B">>, <<"a", "_", "b">>,
     LongTitle \o <<"a">>, LongTitle \o <<"b">>}

\* A rubric as save_rubric receives it: extract_rubric always sets title and
\* video_author; a rubric from elsewhere may lack both.
SaveRubrics ==
    {[title |-> t, video_author |-> "Aussie Drongo"] : t \in Titles}
    \cup {[title |-> <<"a", " ", "b">>, video_author |-> "Beasty"],
          [body |-> "no title"]}

\* rubric_library/ before the run: empty, or holding rubrics of earlier
\* runs and files put there by hand.
InitialLibraries ==
    LET EarlierRubric ==
          [title |-> <<"a", " ", "b">>, video_author |-> "Beasty", id |-> <<"a", "_", "b">>]
    IN
    {[n \in {} |-> Garbage],
     [n \in {FileName(<<"a", "_", "b">>)} |-> JsonDump(EarlierRubric)],
     [n \in {FileName(<<"x", "A", "_", "b", "2">>), FileName(<<"a", "_", "b", "_", "v", "2">>)}
        |-> JsonDump([title |-> <<"x">>, video_author |-> "Beasty", id |-> Stem(n)])],
     [n \in {FileName(<<"a">>), FileName(<<"b", "a", "b">>)} |-> Garbage]}

NoSave == [n |-> 0, rubric |-> [body |-> "none"], default_path |-> FALSE]
NoClobber == [happened |-> FALSE, old |-> [body |-> "none"], new |-> [body |-> "none"]]

InitLibrary ==
    /\ library \in InitialLibraries
    /\ outside = {}
    /\ last_saved = NoSave
    /\ clobbered = NoClobber
    /\ load_id = <<>>
    /\ loaded = NotCalled

\* save_rubric(rubric, output_path): with_path says whether an output path
\* is given (a path outside rubric_library/).
SaveRubric(rubric, with_path) ==
    /\ last_saved.n < MaxSaves
    /\ LET rubric_id == generate_rubric_id(DictGet(rubric, "title", Untitled),
                                           DictGet(rubric, "video_author", "unknown"))
           saved == DictSet(rubric, "id", rubric_id)
           name == FileName(rubric_id)
       IN  /\ IF with_path
              THEN /\ outside' = outside \cup {JsonDump(saved)}
                   /\ UNCHANGED <<library, clobbered>>
              ELSE /\ library' = DictSet(library, name, JsonDump(saved))
                   /\ clobbered' =
                        IF name \in DOMAIN library /\ library[name].json
                        THEN [happened |-> TRUE, old |-> library[name].value, new |-> saved]
                        ELSE clobbered
                   /\ UNCHANGED outside
           /\ last_saved' = [n |-> last_saved.n + 1, rubric |-> saved,
                             default_path |-> ~with_path]
    /\ load_id' = <<>>
    /\ loaded' = NotCalled

\* load_rubric(rubric_id)
LoadRubric(rubric_id) ==
    /\ loaded = NotCalled
    /\ load_id' = rubric_id
    /\ LET names == LoadCandidates(library, rubric_id) IN
       IF names = {} THEN loaded' = Raised("FileNotFoundError")
       ELSE \E name \in names : loaded' = JsonLoad(library[name])
    /\ UNCHANGED <<library, outside, last_saved, clobbered>>

LoadIds == {generate_rubric_id(t, "unknown") : t \in Titles \cup {Untitled}}

ParkLibrary ==
    /\ library = [n \in {} |-> Garbage]
    /\ outside = {}
    /\ last_saved = [NoSave EXCEPT !.n = MaxSaves]
    /\ clobbered = NoClobber
    /\ load_id = <<>>
    /\ loaded = Raised("<parked>")

\* ------------------------------------------------------------------------
\* utils/youtube.py get_video_metadata and download_transcript,
\* extract_rubric.py extract_from_chunk and extract_rubric
\* ------------------------------------------------------------------------

pipeVars == <<p_url, custom_title, p_env, global_client, metadata, dl, p_transcript,
              p_chunks, p_index, p_rubrics, requests, p_result, epc>>

\* Largest number of chunks of a transcript explored.
MaxPipelineChunks == 2

\* The default of the retries parameter of complete_with_retry.
DefaultRetries == 2

\* complete_with_retry(retries = n) from iteration `attempt` on, when the
\* API behaves as apis[attempt + 1], apis[attempt + 2], ...
RECURSIVE RetryFrom(_, _, _, _)
RetryFrom(c, apis, n, i) ==
    LET r == Complete(c, apis[i + 1]) IN
    IF ReturnsOnSuccess(r) THEN r
    ELSE IF i + 1 < n + 1 THEN RetryFrom(c, apis, n, i + 1)
    ELSE r

\* get_video_metadata(url): the record built from yt-dlp's JSON when the
\* lookup succeeds, the fallback record of line 196 when it fails.
get_video_metadata(lookup_ok) ==
    IF lookup_ok
    THEN [title |-> JStr("Fast Castle Guide"), author |-> JStr("Beasty"),
          duration |-> JNum(754), upload_date |-> JStr("20240101"),
          description |-> JStr(""), tags |-> JList(<<>>),
          url |-> JStr("url"), video_id |-> JStr("id")]
    ELSE [title |-> JStr("Unknown"), author |-> JStr("Unknown"), url |-> JStr("url")]

\* download_transcript: the preferred languages; each is tried with
\* auto-generated and then with manual captions.
Languages == <<"en", "en-US", "en-GB">>

\* What _try_download can return: None, the empty text that
\* _parse_json3_subtitles gives for a file it cannot parse, or a text.
TryOutcomes == {"None", "empty", "text"}

NoTranscript == [kind |-> "None", lang |-> "", auto |-> FALSE]
\* The text the i-th try returns: tries 1, 3, 5 ask for auto-generated captions.
Captions(i) ==
    [kind |-> "captions", lang |-> Languages[(i + 1) \div 2], auto |-> i % 2 = 1]
\* "# No transcript available\n\n" followed by the title and description.
FallbackText == [kind |-> "fallback", lang |-> "", auto |-> FALSE]

MutFallbackNone(ok) == NoTranscript

\* _get_video_info_fallback(url), given whether yt-dlp succeeds.
get_video_info_fallback(ok) == IF ok THEN FallbackText ELSE NoTranscript

\* The tries download_transcript makes when the i-th call of _try_download
\* returns outs[i]: all those up to the first that returns a text.
TriesMade(outs) ==
    IF \E i \in 1 .. Len(outs) : outs[i] = "text"
    THEN CHOOSE i \in 1 .. Len(outs) :
            outs[i] = "text" /\ \A j \in 1 .. i - 1 : outs[j] # "text"
    ELSE Len(outs)

\* download_transcript(url): ValueError from extract_video_id for a URL
\* that holds no video id, else the first text or the fallback.
download_transcript(url_ok, outs, fallback_ok) ==
    IF ~url_ok THEN Raised("ValueError")
    ELSE IF \E i \in 1 .. Len(outs) : outs[i] = "text"
    THEN Returned(Captions(TriesMade(outs)))
    ELSE Returned(get_video_info_fallback(fallback_ok))

\* extract_from_chunk: the rubric, None (JNull), or an exception that is
\* not a ValueError; t is the instant of the call.
extract_from_chunk(c, apis, t) ==
    LET Caught(parsed_rubric) ==
            IF ~parsed_rubric.ok /\ parsed_rubric.exc = "ValueError" THEN Returned(JNull)
            ELSE parsed_rubric
        Outcome(r) ==
            IF ~r.success THEN Returned(JNull)
            ELSE Caught(parse_rubric_json(r.content, t))
    IN  Outcome(RetryFrom(c, apis, DefaultRetries, 0))

\* ---- the inputs of the pipeline
ApiRaise == [raises |-> TRUE, error |-> "timeout"]
ApiOk(c) == [raises |-> FALSE, content |-> c, has_reasoning |-> FALSE,
             reasoning |-> Text(<<TProse>>), usage |-> "usage"]
PipelineContents ==
    {NoContent, Text(<<TProse>>), Text(<<TDoc(JList(<<>>))>>),
     Text(<<TDoc(JDict([phases |-> JList(<<Named("Dark Age")>>),
                        benchmarks |-> JDict([feudal_age |-> JNum(300)])]))>>),
     Text(<<TFenceJson, TNl,
            TDoc(JDict([phases |-> JList(<<Named("Dark Age"), Named("Feudal Age")>>),
                        benchmarks |-> JDict([feudal_age |-> JNum(330)])])),
            TNl, TFence>>)}
\* The behaviour of the API over the three attempts made for a chunk.
PipelineRuns ==
    {<<ApiRaise, ApiRaise, ApiRaise>>}
    \cup {<<ApiOk(c), ApiOk(c), ApiOk(c)>> : c \in PipelineContents}
    \cup {<<ApiRaise, ApiRaise, ApiOk(c)>> : c \in PipelineContents}
PipelineEnvs ==
    {e \in Envs : /\ e.zai_ctor_ok /\ e.openai_ctor_ok /\ e.AI_PROVIDER = "auto"
                  /\ e.ZAI_API_KEY = ""}

NoGlobal == [client |-> "<unset>", provider |-> None, model |-> None]
NoDownload == [called |-> FALSE, tries |-> 0, any_caption |-> FALSE,
               fallback_called |-> FALSE, fallback_ok |-> FALSE]

InitPipeline ==
    /\ p_url \in BOOLEAN
    /\ custom_title \in {None, "My Build"}
    /\ p_env \in PipelineEnvs
    /\ global_client = NoGlobal
    /\ metadata = [url |-> JStr("url")]
    /\ dl = NoDownload
    /\ p_transcript = NoTranscript
    /\ p_chunks = <<>>
    /\ p_index = 0
    /\ p_rubrics = <<>>
    /\ requests = <<>>
    /\ p_result = NotCalled
    /\ epc = "metadata"

\* Lines 58-64: the metadata is fetched and printed.
ExtractMetadata(lookup_ok) ==
    /\ epc = "metadata"
    /\ LET md == get_video_metadata(lookup_ok) IN
        /\ metadata' = md
        /\ IF "duration" \in DOMAIN md
           THEN epc' = "download" /\ UNCHANGED p_result
           ELSE epc' = "raised" /\ p_result' = Raised("KeyError")
    /\ UNCHANGED <<p_url, custom_title, p_env, global_client, dl, p_transcript,
                   p_chunks, p_index, p_rubrics, requests>>

\* Lines 66-72: the transcript is downloaded.
ExtractDownload(outs, fallback_ok) ==
    /\ epc = "download"
    /\ LET r == download_transcript(p_url, outs, fallback_ok)
           found == \E i \in 1 .. Len(outs) : outs[i] = "text"
       IN  IF ~r.ok
           THEN /\ epc' = "raised"
                /\ p_result' = r
                /\ UNCHANGED <<dl, p_transcript>>
           ELSE /\ dl' = [called |-> TRUE, tries |-> TriesMade(outs),
                          any_caption |-> found, fallback_called |-> ~found,
                          fallback_ok |-> ~found /\ fallback_ok]
                /\ p_transcript' = r.val
                /\ IF r.val.kind = "None"
                   THEN epc' = "returned" /\ p_result' = Returned(JNull)
                   ELSE epc' = "client" /\ UNCHANGED p_result
    /\ UNCHANGED <<p_url, custom_title, p_env, global_client, metadata,
                   p_chunks, p_index, p_rubrics, requests>>

\* Lines 74-78: get_client() and the availability check.
ExtractClient ==
    /\ epc = "client"
    /\ LET c == IF global_client = NoGlobal THEN InitClient(p_env) ELSE global_client IN
        /\ global_client' = c
        /\ IF is_available(c)
           THEN epc' = "chunk" /\ UNCHANGED p_result
           ELSE epc' = "returned" /\ p_result' = Returned(JNull)
    /\ UNCHANGED <<p_url, custom_title, p_env, metadata, dl, p_transcript,
                   p_chunks, p_index, p_rubrics, requests>>

\* Lines 80-85: the transcript is cut into n chunks, n decided by its
\* length; chunk i is named by its index.
ExtractChunks(n) ==
    /\ epc = "chunk"
    /\ p_chunks' = [i \in 1 .. n |-> i]
    /\ p_index' = 1
    /\ epc' = "loop"
    /\ UNCHANGED <<p_url, custom_title, p_env, global_client, metadata, dl,
                   p_transcript, p_rubrics, requests, p_result>>

\* Lines 89-93: one iteration of the loop over the chunks.
ExtractFromChunk(apis) ==
    /\ epc = "loop"
    /\ p_index <= Len(p_chunks)
    /\ requests' = Append(requests, p_chunks[p_index])
    /\ \E rubric \in {extract_from_chunk(global_client, apis, p_index)} :
       IF ~rubric.ok
       THEN /\ epc' = "raised"
            /\ p_result' = rubric
            /\ UNCHANGED <<p_index, p_rubrics>>
       ELSE /\ p_rubrics' = IF rubric.val # JNull
                            THEN Append(p_rubrics, rubric.val) ELSE p_rubrics
            /\ p_index' = p_index + 1
            /\ UNCHANGED <<epc, p_result>>
    /\ UNCHANGED <<p_url, custom_title, p_env, global_client, metadata, dl,
                   p_transcript, p_chunks>>

\* Lines 106-114: the fields added to the final rubric.
AddMetadata(m, md, title) ==
    LET m1 == DictSet(m, "source_url", md["url"])
        m2 == DictSet(m1, "video_title", md["title"])
        m3 == DictSet(m2, "video_author", md["author"])
        m4 == DictSet(m3, "video_duration", md["duration"])
    IN  IF title # None /\ title # "" THEN DictSet(m4, "title", JStr(title)) ELSE m4

\* Lines 95-116: after the loop.
ExtractFinish ==
    /\ epc = "loop"
    /\ p_index > Len(p_chunks)
    /\ IF p_rubrics = <<>>
       THEN epc' = "returned" /\ p_result' = Returned(JNull)
       ELSE LET final == IF Len(p_rubrics) > 1 THEN merge_rubrics(p_rubrics)
                         ELSE Returned(p_rubrics[1])
            IN  IF ~final.ok
                THEN epc' = "raised" /\ p_result' = final
                ELSE /\ epc' = "returned"
                     /\ p_result' =
                          Returned(JDict(AddMetadata(final.val.m, metadata, custom_title)))
    /\ UNCHANGED <<p_url, custom_title, p_env, global_client, metadata, dl,
                   p_transcript, p_chunks, p_index, p_rubrics, requests>>

ParkPipeline ==
    /\ p_url = FALSE
    /\ custom_title = None
    /\ p_env = [OPENAI_API_KEY |-> "", ZAI_API_KEY |-> "", AI_PROVIDER |-> "auto",
                zai_ctor_ok |-> TRUE, openai_ctor_ok |-> TRUE]
    /\ global_client = NoGlobal
    /\ metadata = [url |-> JStr("url")]
    /\ dl = NoDownload
    /\ p_transcript = NoTranscript
    /\ p_chunks = <<>>
    /\ p_index = 0
    /\ p_rubrics = <<>>
    /\ requests = <<>>
    /\ p_result = NotCalled
    /\ epc = "parked"

\* ------------------------------------------------------------------------
\* utils/llm_client.py get_client and reset_client
\* ------------------------------------------------------------------------

evalVars == <<g_env, g_client, heap, client_log, llm_result, evaluation, output, main_pc>>

\* Largest number of get_client and reset_client calls explored.
MaxClientCalls == 4

MutGetAlwaysConstructs(g, h, e) == [g |-> Len(h) + 1, heap |-> Append(h, InitClient(e))]

\* get_client(): the module global and the heap after the call; the
\* instance returned is the one _client then names.
get_client(g, h, e) ==
    IF g = 0 THEN [g |-> Len(h) + 1, heap |-> Append(h, InitClient(e))]
    ELSE [g |-> g, heap |-> h]

\* A call of get_client() from any caller.
GetClient ==
    /\ Len(client_log) < MaxClientCalls
    /\ LET gc == get_client(g_client, heap, g_env) IN
        /\ g_client' = gc.g
        /\ heap' = gc.heap
        /\ client_log' = Append(client_log, [op |-> "get", ret |-> gc.g])
    /\ UNCHANGED <<g_env, llm_result, evaluation, output, main_pc>>

\* A call of reset_client().
ResetClient ==
    /\ Len(client_log) < MaxClientCalls
    /\ g_client' = 0
    /\ client_log' = Append(client_log, [op |-> "reset", ret |-> 0])
    /\ UNCHANGED <<g_env, heap, llm_result, evaluation, output, main_pc>>

\* ------------------------------------------------------------------------
\* evaluate_game.py: evaluate_against_rubric, print_evaluation and main
\* ------------------------------------------------------------------------

\* `result` before complete_with_retry is called; at is "unavailable" when
\* the function returned at line 99, "returned" once the call has returned.
NoResult == [at |-> "not called", success |-> FALSE, content |-> NoContent]
NoOutput == [kind |-> "none", exit |-> 0]

\* {"raw_response": content}
RawResponse(c) == JDict([raw_response |-> [k |-> "text", toks |-> c.toks]])

\* Lines 158-166: what evaluate_against_rubric makes of `result`.
\* json.loads skips the white space around the value; it raises TypeError
\* for None.
EvaluationOf(r) ==
    IF ~r.success THEN Returned(JNull)
    ELSE IF r.content.isNone THEN Raised("TypeError")
    ELSE LET Caught(v) == IF v.ok THEN v ELSE Returned(RawResponse(r.content))
         IN  Caught(Loads(StripToks(r.content.toks)))

\* print_evaluation(evaluation, rubric, game_data): evaluation.get needs a
\* dict, and every phase of a phase_analysis list has to be a dict.
print_evaluation(ev) ==
    IF ~IsDict(ev) THEN Raised("AttributeError")
    ELSE LET phases == DictGet(ev.m, "phase_analysis", JList(<<>>)) IN
         IF ~Truthy(phases) THEN Returned(ev)
         ELSE IF ~Iterate(phases).ok THEN Iterate(phases)
         ELSE IF \E i \in 1 .. Len(Iterate(phases).val) : ~IsDict(Iterate(phases).val[i])
         THEN Raised("AttributeError")
         ELSE Returned(ev)

\* ---- the responses of the LLM to the evaluation prompt
EvalContents ==
    {NoContent, Text(<<>>), Text(<<TProse>>)}
    \cup {Text(<<TDoc(d)>>) :
            d \in {JDict(EmptyMap), JList(<<>>), JNum(0), JNum(85), JNull,
                   JDict([adherence_score |-> JNum(85)]),
                   JDict([adherence_score |-> JNum(85),
                          phase_analysis |-> JList(<<JStr("Dark Age")>>)])}}
    \cup {Text(<<TNl, TDoc(JDict([adherence_score |-> JNum(60)])), TNl>>),
          Text(<<TFenceJson, TNl, TDoc(JDict([adherence_score |-> JNum(85)])), TNl, TFence>>)}
EvalRuns ==
    {<<ApiRaise, ApiRaise, ApiRaise>>}
    \cup {<<ApiOk(c), ApiOk(c), ApiOk(c)>> : c \in EvalContents}
    \cup {<<ApiRaise, ApiRaise, ApiOk(c)>> : c \in EvalContents}

\* main line 265: evaluate_against_rubric(rubric, game_data), for game data
\* that format_game_summary can or cannot format.
EvaluateAgainstRubric(apis, game_ok) ==
    /\ main_pc = "loaded"
    /\ Len(client_log) < MaxClientCalls
    /\ LET gc == get_client(g_client, heap, g_env)
           c == gc.heap[gc.g]
       IN  /\ g_client' = gc.g
           /\ heap' = gc.heap
           /\ client_log' = Append(client_log, [op |-> "get", ret |-> gc.g])
           /\ IF ~is_available(c)
              THEN /\ llm_result' = [NoResult EXCEPT !.at = "unavailable"]
                   /\ evaluation' = Returned(JNull)
              ELSE IF ~game_ok
              THEN llm_result' = NoResult /\ evaluation' = Raised("AttributeError")
              ELSE \E r \in {RetryFrom(c, apis, DefaultRetries, 0)} :
                      /\ llm_result' = [at |-> "returned", success |-> r.success,
                                         content |-> r.content]
                      /\ evaluation' = EvaluationOf(r)
    /\ main_pc' = "evaluated"
    /\ UNCHANGED <<g_env, output>>

\* main lines 267-275 (--output not given): the run ends.
MainOutput(as_json) ==
    /\ main_pc = "evaluated"
    /\ main_pc' = "exited"
    /\ output' =
          IF ~evaluation.ok THEN [kind |-> "traceback", exit |-> 1]
          ELSE IF ~Truthy(evaluation.val) THEN [kind |-> "Evaluation failed", exit |-> 1]
          ELSE IF as_json THEN [kind |-> "json", exit |-> 0]
          ELSE IF print_evaluation(evaluation.val).ok THEN [kind |-> "report", exit |-> 0]
          ELSE [kind |-> "traceback", exit |-> 1]
    /\ UNCHANGED <<g_env, g_client, heap, client_log, llm_result, evaluation>>

ParkEvaluate ==
    /\ g_env = [OPENAI_API_KEY |-> "", ZAI_API_KEY |-> "", AI_PROVIDER |-> "auto",
                zai_ctor_ok |-> TRUE, openai_ctor_ok |-> TRUE]
    /\ g_client = 0
    /\ heap = <<>>
    /\ client_log = <<>>
    /\ llm_result = NoResult
    /\ evaluation = NotCalled
    /\ output = NoOutput
    /\ main_pc = "parked"

ParkLLM ==
    /\ env = [OPENAI_API_KEY |-> "", ZAI_API_KEY |-> "", AI_PROVIDER |-> "auto",
              zai_ctor_ok |-> TRUE, openai_ctor_ok |-> TRUE]
    /\ client = NoClient
    /\ retries = 0
    /\ attempt = 0
    /\ result = Unbound
    /\ calls = <<>>
    /\ returned = Unbound
    /\ lpc = "parked"

ParkChunk ==
    /\ transcript = <<>>
    /\ chunk_size = 1
    /\ overlap = 0
    /\ start = 0
    /\ windows = <<>>
    /\ chunks = <<>>
    /\ cpc = "parked"

vars == <<llmVars, chunkVars, valVars, mergeVars, libVars, pipeVars, evalVars>>

\* ------------------------------------------------------------------------
\* Specifications: one per part of the program, the other parts at rest
\* ------------------------------------------------------------------------

RetryInit == InitLLM /\ ParkChunk /\ ParkValidate /\ ParkMerge /\ ParkLibrary /\ ParkPipeline /\ ParkEvaluate

RetryNext ==
    \/ \E n \in -1 .. MaxRetries : RetryEnter(n) /\ UNCHANGED <<chunkVars, valVars, mergeVars, libVars, pipeVars, evalVars>>
    \/ \E api \in ApiResponses : RetryIteration(api) /\ UNCHANGED <<chunkVars, valVars, mergeVars, libVars, pipeVars, evalVars>>
    \/ RetryExhausted /\ UNCHANGED <<chunkVars, valVars, mergeVars, libVars, pipeVars, evalVars>>

SpecRetry == RetryInit /\ [][RetryNext]_vars

ChunkInit == InitChunk /\ ParkLLM /\ ParkValidate /\ ParkMerge /\ ParkLibrary /\ ParkPipeline /\ ParkEvaluate

ChunkNext ==
    \/ ChunkEnter /\ UNCHANGED <<llmVars, valVars, mergeVars, libVars, pipeVars, evalVars>>
    \/ ChunkIteration /\ UNCHANGED <<llmVars, valVars, mergeVars, libVars, pipeVars, evalVars>>
    \/ ChunkReturn /\ UNCHANGED <<llmVars, valVars, mergeVars, libVars, pipeVars, evalVars>>

SpecChunk == ChunkInit /\ [][ChunkNext]_vars

ValidateInit == InitValidate /\ ParkLLM /\ ParkChunk /\ ParkMerge /\ ParkLibrary /\ ParkPipeline /\ ParkEvaluate

ValidateNext ==
    \/ ParseRubricJson /\ UNCHANGED <<llmVars, chunkVars, mergeVars, libVars, pipeVars, evalVars>>
    \/ ValidateAgain /\ UNCHANGED <<llmVars, chunkVars, mergeVars, libVars, pipeVars, evalVars>>
    \/ Tick /\ UNCHANGED <<llmVars, chunkVars, mergeVars, libVars, pipeVars, evalVars>>

SpecValidate == ValidateInit /\ [][ValidateNext]_vars

MergeInit == InitMerge /\ ParkLLM /\ ParkChunk /\ ParkValidate /\ ParkLibrary /\ ParkPipeline /\ ParkEvaluate

MergeNext ==
    \/ MergeRubrics /\ UNCHANGED <<llmVars, chunkVars, valVars, libVars, pipeVars, evalVars>>

SpecMerge == MergeInit /\ [][MergeNext]_vars

LibraryInit == InitLibrary /\ ParkLLM /\ ParkChunk /\ ParkValidate /\ ParkMerge /\ ParkPipeline /\ ParkEvaluate

LibraryNext ==
    \/ \E r \in SaveRubrics, p \in BOOLEAN : SaveRubric(r, p) /\ UNCHANGED <<llmVars, chunkVars, valVars, mergeVars, pipeVars, evalVars>>
    \/ \E id \in LoadIds : LoadRubric(id) /\ UNCHANGED <<llmVars, chunkVars, valVars, mergeVars, pipeVars, evalVars>>

SpecLibrary == LibraryInit /\ [][LibraryNext]_vars

PipelineInit ==
    InitPipeline /\ ParkLLM /\ ParkChunk /\ ParkValidate /\ ParkMerge /\ ParkLibrary
    /\ ParkEvaluate

PipelineNext ==
    \/ \E ok \in BOOLEAN : ExtractMetadata(ok) /\ UNCHANGED <<llmVars, chunkVars, valVars, mergeVars, libVars, evalVars>>
    \/ \E outs \in [1 .. 2 * Len(Languages) -> TryOutcomes], ok \in BOOLEAN :
          ExtractDownload(outs, ok) /\ UNCHANGED <<llmVars, chunkVars, valVars, mergeVars, libVars, evalVars>>
    \/ ExtractClient /\ UNCHANGED <<llmVars, chunkVars, valVars, mergeVars, libVars, evalVars>>
    \/ \E n \in 1 .. MaxPipelineChunks : ExtractChunks(n) /\ UNCHANGED <<llmVars, chunkVars, valVars, mergeVars, libVars, evalVars>>
    \/ \E apis \in PipelineRuns : ExtractFromChunk(apis) /\ UNCHANGED <<llmVars, chunkVars, valVars, mergeVars, libVars, evalVars>>
    \/ ExtractFinish /\ UNCHANGED <<llmVars, chunkVars, valVars, mergeVars, libVars, evalVars>>

SpecPipeline == PipelineInit /\ [][PipelineNext]_vars

EvaluateInit ==
    /\ g_env \in Envs
    /\ g_client = 0
    /\ heap = <<>>
    /\ client_log = <<>>
    /\ llm_result = NoResult
    /\ evaluation = NotCalled
    /\ output = NoOutput
    /\ main_pc = "loaded"
    /\ ParkLLM /\ ParkChunk /\ ParkValidate /\ ParkMerge /\ ParkLibrary /\ ParkPipeline

EvaluateNext ==
    \/ GetClient /\ UNCHANGED <<llmVars, chunkVars, valVars, mergeVars, libVars, pipeVars>>
    \/ ResetClient /\ UNCHANGED <<llmVars, chunkVars, valVars, mergeVars, libVars, pipeVars>>
    \/ \E apis \in EvalRuns, game_ok \in BOOLEAN :
          EvaluateAgainstRubric(apis, game_ok)
          /\ UNCHANGED <<llmVars, chunkVars, valVars, mergeVars, libVars, pipeVars>>
    \/ \E as_json \in BOOLEAN :
          MainOutput(as_json)
          /\ UNCHANGED <<llmVars, chunkVars, valVars, mergeVars, libVars, pipeVars>>

SpecEvaluate == EvaluateInit /\ [][EvaluateNext]_vars

\* ------------------------------------------------------------------------
\* Properties of complete_with_retry and complete (SpecRetry)
\* ------------------------------------------------------------------------

\* C1: complete_with_retry called with retries = n >= 0 calls complete at
\* most n+1 times, makes no call after the first successful one and returns
\* that result, and when every attempt fails (all n+1 of them) it returns
\* the failure result of the last attempt; it never ends by raising.
C1_RetryContract ==
    (lpc # "idle" /\ retries >= 0) =>
        /\ Len(calls) <= retries + 1
        /\ \A i \in 1 .. Len(calls) - 1 : ~calls[i].success
        /\ lpc # "raised"
        /\ lpc = "returned" =>
            /\ Len(calls) >= 1
            /\ returned = calls[Len(calls)]
            /\ returned.success \/ Len(calls) = retries + 1

\* C1 witness: with retries = 2, two failures and then a success that is
\* returned after exactly three calls.
C1_Witness ==
    /\ lpc = "returned"
    /\ retries = 2
    /\ Len(calls) = 3
    /\ ~calls[1].success /\ ~calls[2].success
    /\ returned.success

\* C9 (as claimed): every dict returned by complete has the three keys
\* 'success', 'content' and 'error'.
C9_ThreeKeys ==
    \A i \in 1 .. Len(calls) : {"success", "content", "error"} \subseteq DOMAIN calls[i]

\* ------------------------------------------------------------------------
\* Properties of chunk_transcript (SpecChunk)
\* ------------------------------------------------------------------------

\* The part of the transcript a window <<start, end>> slices: [WLo, WHi).
WLo(w) == SliceIdx(w[1], Len(transcript))
WHi(w) == SliceIdx(w[2], Len(transcript))
WShared(v, w) == {p \in 0 .. Len(transcript) - 1 :
                    /\ WLo(v) <= p /\ p < WHi(v)
                    /\ WLo(w) <= p /\ p < WHi(w)}

\* C3 (as claimed): for a transcript longer than chunk_size, each chunk
\* after the first begins `overlap` characters before the position where
\* the preceding chunk ends, so that consecutive chunks share exactly
\* `overlap` characters of the transcript.
C3_ExactOverlap ==
    (cpc = "returned" /\ Len(transcript) > chunk_size) =>
        \A i \in 1 .. Len(windows) - 1 :
            /\ WLo(windows[i + 1]) = WHi(windows[i]) - overlap
            /\ Cardinality(WShared(windows[i], windows[i + 1])) = overlap

C5_ValidateIdempotent ==
    vpc = "revalidated" =>
        /\ again.ok
        /\ IsDict(again.val)
        /\ DOMAIN again.val.m = DOMAIN parsed.val.m
        /\ \A key \in DOMAIN parsed.val.m \ {"_meta"} :
               again.val.m[key] = parsed.val.m[key]
        /\ IsDict(again.val.m["_meta"])
        /\ DOMAIN again.val.m["_meta"].m = DOMAIN parsed.val.m["_meta"].m
        /\ again.val.m["_meta"].m["version"] = parsed.val.m["_meta"].m["version"]

\* C5 witness: a rubric whose title, map_types and an action's importance
\* were filled in by the first validation is validated again at a later
\* instant.
C5_Witness ==
    /\ vpc = "revalidated"
    /\ again.ok
    /\ parsed.val.m["title"] = JStr("unknown")
    /\ parsed.val.m["map_types"] = JList(<<JStr("any")>>)
    /\ parsed.val.m["phases"].k = "list"
    /\ Len(parsed.val.m["phases"].items) = 2
    /\ again.val.m["_meta"] # parsed.val.m["_meta"]

\* C6 (as claimed): whenever parse_rubric_json returns a rubric, title,
\* difficulty and archetype are non-empty; civilizations, map_types, phases,
\* decision_points and key_insights are lists; counters and benchmarks are
\* objects; benchmarks holds all seven keys; every phase has key_actions,
\* success_criteria and common_mistakes, and every key action an importance.
C6_ValidatedShape ==
    (vpc # "call" /\ parsed.ok) =>
        LET m == parsed.val.m IN
        /\ \A i \in 1 .. Len(required_fields) :
               required_fields[i] \in DOMAIN m /\ Truthy(m[required_fields[i]])
        /\ \A key \in {"civilizations", "map_types", "phases",
                       "decision_points", "key_insights"} :
               key \in DOMAIN m /\ IsList(m[key])
        /\ \A key \in {"counters", "benchmarks"} : key \in DOMAIN m /\ IsDict(m[key])
        /\ \A i \in 1 .. Len(benchmark_keys) : benchmark_keys[i] \in DOMAIN m["benchmarks"].m
        /\ \A i \in 1 .. Len(m["phases"].items) :
               LET ph == m["phases"].items[i] IN
               /\ IsDict(ph)
               /\ {"key_actions", "success_criteria", "common_mistakes"} \subseteq DOMAIN ph.m
               /\ IsList(ph.m["key_actions"])
               /\ \A j \in 1 .. Len(ph.m["key_actions"].items) :
                      LET a == ph.m["key_actions"].items[j] IN
                      IsDict(a) /\ "importance" \in DOMAIN a.m

\* ------------------------------------------------------------------------
\* Properties of merge_rubrics (SpecMerge)
\* ------------------------------------------------------------------------

NoRepeat(items) == \A i, j \in 1 .. Len(items) : i # j => items[i] # items[j]
KeysOf(items, key) == [i \in 1 .. Len(items) |-> items[i].m[key]]

\* C2 (as claimed): in the rubric merge_rubrics returns for two or more
\* chunk rubrics, no two phases have the same name, no two decision points
\* the same trigger, and no key insight occurs twice.
C2_NoDuplicates ==
    (mpc = "returned" /\ Len(merge_input) >= 2) =>
        /\ NoRepeat(KeysOf(merged.val.m["phases"].items, "name"))
        /\ NoRepeat(KeysOf(merged.val.m["decision_points"].items, "trigger"))
        /\ NoRepeat(merged.val.m["key_insights"].items)

\* ------------------------------------------------------------------------
\* Properties of the rubric library (SpecLibrary)
\* ------------------------------------------------------------------------

SameTitleAndAuthor(r1, r2) ==
    /\ DictGet(r1, "title", Untitled) = DictGet(r2, "title", Untitled)
    /\ DictGet(r1, "video_author", "unknown") = DictGet(r2, "video_author", "unknown")

\* C7 (as claimed): rubrics that differ in title or in author get different
\* ids, so save_rubric with the default path never writes a rubric over the
\* library file of a rubric with another title or author.
C7_UniqueIds ==
    clobbered.happened => SameTitleAndAuthor(clobbered.old, clobbered.new)

\* C8: after save_rubric(rubric) with no output path, load_rubric(rubric['id'])
\* returns exactly the rubric that was saved, whatever else the library holds.
C8_LoadAfterSave ==
    (/\ last_saved.n > 0
     /\ last_saved.default_path
     /\ loaded # NotCalled
     /\ load_id = last_saved.rubric["id"])
    => loaded = Returned(last_saved.rubric)

\* C8 witness: the rubric saved is loaded back from a library in which other
\* file names contain its id.
C8_Witness ==
    /\ last_saved.n > 0
    /\ last_saved.default_path
    /\ load_id = last_saved.rubric["id"]
    /\ loaded = Returned(last_saved.rubric)
    /\ \E n \in DOMAIN library :
          /\ n # FileName(load_id)
          /\ IsSubstring(LowerStr(load_id), LowerStr(Stem(n)))
          /\ load_id # <<>>

\* ------------------------------------------------------------------------
\* Properties of download_transcript and extract_rubric (SpecPipeline)
\* ------------------------------------------------------------------------

C11_AvailableIffAnyKey ==
    (env.zai_ctor_ok /\ env.openai_ctor_ok) =>
        (is_available(client) <=> (env.OPENAI_API_KEY # "" \/ env.ZAI_API_KEY # ""))

\* C11 (amended): when the SDK constructor does not raise, is_available()
\* is true if and only if OPENAI_API_KEY is non-empty, or ZAI_API_KEY is
\* non-empty and AI_PROVIDER is 'zai' or 'auto'; the z.ai key alone does not
\* make the client available under another AI_PROVIDER.
C11_AvailableIffUsableKey ==
    (env.zai_ctor_ok /\ env.openai_ctor_ok) =>
        /\ is_available(client) <=>
              \/ env.OPENAI_API_KEY # ""
              \/ (env.ZAI_API_KEY # "" /\ env.AI_PROVIDER \in {"zai", "auto"})
        /\ client.provider = "zai" <=>
              (env.ZAI_API_KEY # "" /\ env.AI_PROVIDER \in {"zai", "auto"})

\* C11 witness: only the z.ai key is set, AI_PROVIDER is 'openai', the
\* constructed client is not available and a completion was refused.
C11_Witness ==
    /\ env.zai_ctor_ok /\ env.openai_ctor_ok
    /\ env.ZAI_API_KEY # "" /\ env.OPENAI_API_KEY = "" /\ env.AI_PROVIDER = "openai"
    /\ ~is_available(client)
    /\ lpc = "returned"
    /\ returned.error = "LLM not configured"

\* ------------------------------------------------------------------------
\* Properties of get_client and reset_client (SpecEvaluate)
\* ------------------------------------------------------------------------

\* C12: every get_client returns the instance the previous get_client
\* returned unless a reset_client happened in between, and then (as for the
\* first get_client) it returns a freshly constructed instance; at most one
\* LLMClient is constructed between two consecutive resets.
C12_OneClientBetweenResets ==
    LET Gets == {i \in 1 .. Len(client_log) : client_log[i].op = "get"}
        Resets == {i \in 1 .. Len(client_log) : client_log[i].op = "reset"}
    IN
        /\ \A i \in Gets, j \in Gets :
              (i < j /\ \A r \in Resets : ~(i < r /\ r < j)) =>
                  client_log[i].ret = client_log[j].ret
        /\ \A j \in Gets :
              (\A i \in Gets : i < j => \E r \in Resets : i < r /\ r < j) =>
                  /\ client_log[j].ret \in 1 .. Len(heap)
                  /\ \A i \in Gets : i < j => client_log[i].ret # client_log[j].ret
        /\ Len(heap) <= Cardinality(Resets) + 1
        /\ Len(heap) <= Cardinality(Gets)

\* C12 witness: two get_client calls returned one instance, a reset_client
\* followed, and the next get_client returned a second instance.
C12_Witness ==
    /\ Len(client_log) = 4
    /\ client_log[1] = [op |-> "get", ret |-> 1]
    /\ client_log[2] = [op |-> "get", ret |-> 1]
    /\ client_log[3].op = "reset"
    /\ client_log[4] = [op |-> "get", ret |-> 2]
    /\ Len(heap) = 2

\* ------------------------------------------------------------------------
\* Termination of chunk_transcript (SpecChunk)
\* ------------------------------------------------------------------------

\* C13: with chunk_size > overlap >= 0 the start position strictly
\* increases on every iteration of the loop of chunk_transcript, so that the
\* loop ends and a finite list of chunks is returned.
C13_StartIncreases ==
    (chunk_size > overlap /\ overlap >= 0) =>
        \A i \in 1 .. Len(windows) :
            windows[i][1] < (IF i < Len(windows) THEN windows[i + 1][1] ELSE start)

\* ------------------------------------------------------------------------
\* The loop over the chunks in extract_rubric (SpecPipeline)
\* ------------------------------------------------------------------------

\* C14: once the transcript is chunked, extract_rubric ends having called
\* the LLM for every chunk in transcript order, whatever happened to earlier
\* chunks; it returns None exactly when no chunk produced a rubric, and
\* otherwise the result built from the rubrics of the chunks that succeeded,
\* merged in chunk order.
C14_EveryChunkIsTried ==
    (p_chunks # <<>> /\ epc \in {"returned", "raised"}) =>
        /\ requests = p_chunks
        /\ p_result.ok
        /\ (p_result.val = JNull) <=> (p_rubrics = <<>>)
        /\ p_rubrics # <<>> =>
              \E built \in {IF Len(p_rubrics) > 1 THEN merge_rubrics(p_rubrics)
                            ELSE Returned(p_rubrics[1])} :
                  /\ built.ok
                  /\ p_result.val = JDict(AddMetadata(built.val.m, metadata, custom_title))

\* ------------------------------------------------------------------------
\* The benchmarks of a merged rubric (SpecMerge)
\* ------------------------------------------------------------------------

\* C15: each benchmark key of the merged rubric holds the first value in
\* chunk order that is not null (null when every chunk gives null): a value
\* that is not null is never overwritten by a later chunk and a null is
\* filled by the earliest later chunk that gives a value.
C15_FirstNonNullBenchmark ==
    (mpc = "returned" /\ Len(merge_input) >= 1) =>
        LET Bench(i, key) ==
                DictGet(DictGet(merge_input[i].m, "benchmarks", JDict(EmptyMap)).m,
                        key, JNull)
            Given(key) == {i \in 1 .. Len(merge_input) : Bench(i, key) # JNull}
            mb == merged.val.m["benchmarks"].m
        IN  /\ \A i \in 1 .. Len(merge_input) :
                  DOMAIN merge_input[i].m["benchmarks"].m \subseteq DOMAIN mb
            /\ \A key \in DOMAIN mb :
                  IF Given(key) = {} THEN mb[key] = JNull
                  ELSE \E i \in Given(key) :
                          /\ \A j \in Given(key) : i <= j
                          /\ mb[key] = Bench(i, key)

\* C15 witness: three chunks were merged; the first gives feudal_age 300 and
\* no castle_age, the second castle_age 900, the third castle_age 840, and
\* the merged rubric holds 300 and 900.
C15_Witness ==
    /\ mpc = "returned"
    /\ Len(merge_input) = 3
    /\ merge_input[1].m["benchmarks"].m["feudal_age"] = JNum(300)
    /\ merge_input[1].m["benchmarks"].m["castle_age"] = JNull
    /\ merge_input[2].m["benchmarks"].m["castle_age"] = JNum(900)
    /\ merge_input[3].m["benchmarks"].m["castle_age"] = JNum(840)
    /\ merged.val.m["benchmarks"].m["feudal_age"] = JNum(300)
    /\ merged.val.m["benchmarks"].m["castle_age"] = JNum(900)

\* C16: extract_from_chunk never raises: whatever complete_with_retry
\* returns for a chunk, the call made for that chunk returns a validated
\* rubric or None, so extract_rubric never ends by an exception inside the
\* iteration of a chunk (the state where the chunk just requested is the
\* one the loop still stands at).
C16_ChunkNeverRaises ==
    ~(epc = "raised" /\ p_index >= 1 /\ Len(requests) = p_index)

\* C17: when the metadata lookup fails, get_video_metadata returns its
\* fallback record and extract_rubric goes on with title 'Unknown' and author
\* 'Unknown'; it never ends by an exception caused by the missing metadata.
C17_MetadataFallbackContinues ==
    ("title" \in DOMAIN metadata /\ "duration" \notin DOMAIN metadata) =>
        /\ metadata["title"] = JStr("Unknown")
        /\ metadata["author"] = JStr("Unknown")
        /\ ~(epc = "raised" /\ p_result = Raised("KeyError"))

\* ------------------------------------------------------------------------
\* The end of an evaluate_game run (SpecEvaluate)
\* ------------------------------------------------------------------------

\* C18: once rubric and game data are loaded, the run ends with 'Evaluation
\* failed' and exit status 1 exactly when the LLM client is unavailable or
\* every completion attempt failed; after a successful LLM response an
\* evaluation is output: the parsed JSON value, or {"raw_response": content}
\* when the content is not valid JSON.
C18_FailedOnlyWithoutResponse ==
    main_pc = "exited" =>
        /\ (output.kind = "Evaluation failed" /\ output.exit = 1) <=>
              \/ llm_result.at = "unavailable"
              \/ (llm_result.at = "returned" /\ ~llm_result.success)
        /\ llm_result.success =>
              /\ output.kind \in {"json", "report"}
              /\ evaluation.ok
              /\ \E v \in {Loads(StripToks(llm_result.content.toks))} :
                    evaluation.val = IF v.ok THEN v.val ELSE RawResponse(llm_result.content)

====
